---- MODULE Spec2Model ----
(***************************************************************************)
(* Model of the provisioning / teardown saga of thevickypedia/openvpn:     *)
(* VPNServer.create_vpn_server and VPNServer.delete_vpn_server of          *)
(* src/vpn/main.py, with the EC2 / Route53 / SSH collaborators as a small  *)
(* provider model whose calls may fail.                                    *)
(*                                                                         *)
(* Every helper method is an operator from a machine state m (provider     *)
(* resources, local files, process state, the log of calls issued so far,  *)
(* the pending exception) to the SET of its possible outcomes              *)
(* [m |-> state after, ret |-> returned value]: one outcome per way the    *)
(* provider can answer.  A handler is the composition of its helpers in    *)
(* the order of the code; an action picks one outcome of the whole handler.*)
(***************************************************************************)
EXTENDS Integers, Sequences, FiniteSets, TLC

\* ---------------------------------------------------------------- bounds
\* Instance ids the provider can hand out (a further launch is refused).
MaxInstances == 2
\* Security-group ids the provider can hand out.
MaxGroups == 2
\* Depth at which the interpreter ends the recursion of _create_key_pair.
MaxRecursion == 2
\* Polls of _instance_info that are counted; further polls leave the count there.
MaxPolls == 3

\* ------------------------------------------------------ program constants
\* for i in range(10) in _configure_vpn
SSHAttempts == 10

None == 0
InstIds == 1 .. MaxInstances
Placeholder == "ami-0000000000"

VARIABLES
    key_pair,        \* EC2: a key pair named env.key_pair exists
    security_group,  \* EC2: id of the group named env.security_group, or None
    instances,       \* EC2: [InstIds -> [state, group, image]]
    dns_record,      \* Route53: the A record [name, ip]; name "" when absent
    vpn_info,        \* the record file env.vpn_info
    key_pair_file,   \* settings.key_pair_file: "absent", or its mode
    env,             \* vpn.models.config.env: image_id, hosted_zone, subdomain
    image_id,        \* self.image_id
    zone_id,         \* self.zone_id
    next_instance,   \* next instance id the provider hands out
    next_group,      \* next group id the provider hands out
    last,            \* the most recent call: its arguments, the state it
                     \* started from, the calls it issued, how it ended
    poll             \* src/vpn.py: where _instance_info is in its polling loop

vars == <<key_pair, security_group, instances, dns_record, vpn_info,
          key_pair_file, env, image_id, zone_id, next_instance, next_group,
          last, poll>>

\* ------------------------------------------------------------ data shapes
NoFile == [exists |-> FALSE, instance_id |-> None, security_group_id |-> None,
           public_dns |-> None, public_ip |-> None, entrypoint |-> ""]

NoInstance == [state |-> "none", group |-> None, image |-> ""]

NoDns == [name |-> "", ip |-> None]

NoArgs == [instance_id |-> None, security_group_id |-> None,
           entrypoint |-> "", public_ip |-> None]

Live == {"pending", "running", "shutting-down"}

\* startup_vpn of src/vpn.py: no process of src/vpn.py is running.
NoPoll == [pc |-> "idle", polls |-> 0, errors |-> 0, ret |-> "none",
           instance_id |-> None, security_group_id |-> None]

\* The machine state a handler runs on.
Machine ==
    [key_pair |-> key_pair, security_group |-> security_group,
     instances |-> instances, dns_record |-> dns_record,
     vpn_info |-> vpn_info, key_pair_file |-> key_pair_file,
     env |-> env, image_id |-> image_id, zone_id |-> zone_id,
     next_instance |-> next_instance, next_group |-> next_group,
     log |-> <<>>, exc |-> ""]

\* What of the machine state a call can be compared against afterwards.
Snapshot(m) ==
    [key_pair |-> m.key_pair, security_group |-> m.security_group,
     instances |-> m.instances, dns_record |-> m.dns_record,
     vpn_info |-> m.vpn_info, key_pair_file |-> m.key_pair_file]

Call(m, call, res, id, arg) ==
    [m EXCEPT !.log = Append(@, [call |-> call, res |-> res, id |-> id, arg |-> arg])]

Raise(m, e) == [m EXCEPT !.exc = e]

Out(m, r) == [m |-> m, ret |-> r]

\* settings.entrypoint: the subdomain under the hosted zone, when both are set.
SettingsEntrypoint(e) ==
    IF e.hosted_zone /\ e.subdomain THEN "vpn.example.com" ELSE ""

\* ---------------------------------------------------------------- helpers
\* VPNServer._init
_init(m, start) ==
    LET m1 == IF start
              THEN IF m.env.image_id # ""
                   THEN [m EXCEPT !.image_id = m.env.image_id]
                   ELSE [Call(m, "get_image_id", "ok", None, "") EXCEPT !.image_id = "ami-auto"]
              ELSE m
        m2 == IF m1.env.hosted_zone
              THEN [Call(m1, "get_zone_id", "ok", None, "") EXCEPT !.zone_id = "zone"]
              ELSE m1
    IN  {Out(m2, "None")}

\* VPNServer._delete_key_pair
_delete_key_pair(m) ==
    {Out(Call(m, "delete_key_pair", "error", None, ""), "False")}
    \cup
    {LET m1 == [Call(m, "delete_key_pair", "ok", None, "") EXCEPT !.key_pair = FALSE]
     IN  IF m1.key_pair_file # "absent"
         THEN Out([m1 EXCEPT !.key_pair_file = "absent"], "True")
         ELSE Out(m1, "None")}

\* VPNServer._create_key_pair
RECURSIVE _create_key_pair(_, _)
_create_key_pair(m, depth) ==
    IF depth > MaxRecursion
    THEN {Out(Raise(m, "RecursionError"), "False")}
    ELSE {Out(Call(m, "create_key_pair", "error", None, ""), "False")}
         \cup
         (IF m.key_pair
          THEN UNION {_create_key_pair(r.m, depth + 1) :
                        r \in _delete_key_pair(Call(m, "create_key_pair", "duplicate", None, ""))}
          ELSE LET m1 == [Call(m, "create_key_pair", "ok", None, "") EXCEPT !.key_pair = TRUE]
               IN  IF m1.key_pair_file = "0400"
                   THEN {Out(Raise(m1, "PermissionError"), "False")}
                   ELSE {Out([m1 EXCEPT !.key_pair_file = IF @ = "absent" THEN "0644" ELSE @],
                             "True")})

\* VPNServer._get_vpc_id and VPNServer._create_security_group
_create_security_group(m) ==
    {Out(Call(m, "get_vpc_id", "error", None, ""), None)}
    \cup
    (LET m1 == Call(m, "get_vpc_id", "ok", None, "")
     IN  {Out(Call(m1, "create_security_group", "error", None, ""), None)}
         \cup
         (IF m1.security_group # None
          THEN LET m2 == Call(m1, "create_security_group", "duplicate", None, "")
               IN  {Out(Raise(Call(m2, "list_security_groups", "error", None, ""), "ClientError"), None),
                    Out(Call(m2, "list_security_groups", "ok", m2.security_group, ""),
                        m2.security_group)}
          ELSE IF m1.next_group <= MaxGroups
               THEN {Out([Call(m1, "create_security_group", "ok", m1.next_group, "")
                            EXCEPT !.security_group = m1.next_group, !.next_group = @ + 1],
                         m1.next_group)}
               ELSE {}))

\* VPNServer._authorize_security_group
_authorize_security_group(m, security_group_id) ==
    {Out(Call(m, "authorize_ingress", "error", security_group_id, ""), "False")}
    \cup
    (IF m.security_group = security_group_id
     THEN {Out(Call(m, "authorize_ingress", "ok", security_group_id, ""), "True")}
     ELSE {})

\* VPNServer._delete_security_group
_delete_security_group(m, security_group_id) ==
    LET exists == security_group_id # None /\ m.security_group = security_group_id
        attached == \E i \in InstIds :
                        /\ m.instances[i].group = security_group_id
                        /\ m.instances[i].state \in Live
    IN  {Out(Call(m, "delete_security_group", "error", security_group_id, ""), "False")}
        \cup
        (IF ~exists
         THEN {Out(Call(m, "delete_security_group", "not_found", security_group_id, ""), "True")}
         ELSE IF attached
         THEN {Out(Call(m, "delete_security_group", "dependency", security_group_id, ""), "False")}
         ELSE {Out([Call(m, "delete_security_group", "ok", security_group_id, "")
                      EXCEPT !.security_group = None], "True")})

\* VPNServer._disassociate_security_group
_disassociate_security_group(m, security_group_id, instance_id) ==
    LET modifiable == /\ instance_id \in InstIds
                      /\ m.instances[instance_id].state \in {"pending", "running"}
    IN  {Out(Call(m, "disassociate", "error", instance_id, ""), "None")}
        \cup
        (IF modifiable
         THEN {Out([Call(m, "disassociate", "ok", instance_id, "")
                      EXCEPT !.instances[instance_id].group =
                                 IF @ = security_group_id THEN None ELSE @], "True"),
               \* the first modify_attribute went through, the second raised
               Out([Call(m, "disassociate", "partial", instance_id, "")
                      EXCEPT !.instances[instance_id].group = None], "None")}
         ELSE {})

\* VPNServer._terminate_ec2_instance
_terminate_ec2_instance(m, instance_id) ==
    {Out(Call(m, "terminate", "error", instance_id, ""), "None")}
    \cup
    (IF instance_id \in InstIds /\ m.instances[instance_id].state # "none"
     THEN {Out([Call(m, "terminate", "ok", instance_id, "")
                  EXCEPT !.instances[instance_id].state =
                             IF @ = "terminated" THEN @ ELSE "shutting-down"], "instance")}
     ELSE {})

\* instance.wait_until_running, as create_vpn_server uses it
wait_until_running(m, instance_id) ==
    {Out(Call(m, "wait_until_running", "error", instance_id, ""), "WaiterError"),
     Out([Call(m, "wait_until_running", "ok", instance_id, "")
            EXCEPT !.instances[instance_id].state = "running"], "None")}

\* instance.wait_until_terminated, as create_vpn_server and delete_vpn_server use it
wait_until_terminated(m, instance_id) ==
    {Out(Call(m, "wait_until_terminated", "error", instance_id, ""), "WaiterError")}
    \cup
    (IF instance_id \in InstIds /\ m.instances[instance_id].state \in {"shutting-down", "terminated"}
     THEN {Out([Call(m, "wait_until_terminated", "ok", instance_id, "")
                  EXCEPT !.instances[instance_id].state = "terminated"], "None")}
     ELSE {})

\* vpn.models.route53.change_record_set
change_record_set(m, source, destination, action) ==
    {Out(Call(m, "change_record_set", "error", destination, action), "None")}
    \cup
    (IF action = "UPSERT"
     THEN {Out([Call(m, "change_record_set", "ok", destination, action)
                  EXCEPT !.dns_record = [name |-> source, ip |-> destination]], "None")}
     ELSE IF m.dns_record = [name |-> source, ip |-> destination] /\ source # ""
     THEN {Out([Call(m, "change_record_set", "ok", destination, action)
                  EXCEPT !.dns_record = NoDns], "None")}
     ELSE {})

\* _tester taking the SSH check alone for its answer, whatever the HTTPS
\* response was.
_tester_ssh_only(m, data) ==
    LET up == data.public_dns \in InstIds /\ m.instances[data.public_dns].state = "running"
        connect(g) ==
            {Out(Raise(Call(g, "ssh_connect", "error", data.public_dns, "test"), "SSHException"),
                 "False")}
            \cup
            (IF up
             THEN LET c == Call(g, "ssh_connect", "ok", data.public_dns, "test")
                  IN  {Out(Call(c, "test_service", "ok", data.public_dns, ""), "True"),
                       Out(Call(c, "test_service", "error", data.public_dns, ""), "False")}
             ELSE {})
    IN  {Out(Call(m, "https_get", "error", data.public_ip, ""), "False")}
        \cup
        (IF up
         THEN connect(Call(m, "https_get", "ok", data.public_ip, ""))
              \cup connect(Call(m, "https_get", "not_ok", data.public_ip, ""))
         ELSE {})

\* VPNServer._tester: the HTTPS GET on public_ip, then the SSH check on
\* public_dns.  A host answers only while its instance is running.
_tester(m, data) ==
    LET up == data.public_dns \in InstIds /\ m.instances[data.public_dns].state = "running"
        connect(g, ok) ==
            {Out(Raise(Call(g, "ssh_connect", "error", data.public_dns, "test"), "SSHException"),
                 "False")}
            \cup
            (IF up
             THEN LET c == Call(g, "ssh_connect", "ok", data.public_dns, "test")
                  IN  IF ok
                      THEN {Out(Call(c, "test_service", "ok", data.public_dns, ""), "True"),
                            Out(Call(c, "test_service", "error", data.public_dns, ""), "False")}
                      ELSE {Out(c, "False")}
             ELSE {})
    IN  {Out(Call(m, "https_get", "error", data.public_ip, ""), "False")}
        \cup
        (IF up
         THEN connect(Call(m, "https_get", "ok", data.public_ip, ""), TRUE)
              \cup connect(Call(m, "https_get", "not_ok", data.public_ip, ""), FALSE)
         ELSE {})

\* The log after n failed SSH connection attempts of _configure_vpn.
FailedAttempts(m, public_dns, n) ==
    [m EXCEPT !.log = @ \o [j \in 1 .. n |->
        [call |-> "ssh_connect", res |-> "error", id |-> public_dns, arg |-> "configure"]]]

\* delete_record without the test of public_ip: the configuration or an
\* entrypoint is enough for the DELETE.
delete_record_configured(m, entrypoint, public_ip) ==
    IF (m.env.hosted_zone /\ m.env.subdomain) \/ entrypoint # ""
    THEN {r.m : r \in change_record_set(m,
             IF SettingsEntrypoint(m.env) # "" THEN SettingsEntrypoint(m.env) ELSE entrypoint,
             public_ip, "DELETE")}
    ELSE {m}

\* delete_vpn_server: the DELETE of the DNS record, when its condition holds
delete_record(m, entrypoint, public_ip) ==
    IF \/ (m.env.hosted_zone /\ m.env.subdomain /\ public_ip # None)
       \/ (entrypoint # "" /\ public_ip # None)
    THEN {r.m : r \in change_record_set(m,
             IF SettingsEntrypoint(m.env) # "" THEN SettingsEntrypoint(m.env) ELSE entrypoint,
             public_ip, "DELETE")}
    ELSE {m}

\* delete_vpn_server: the wait taken when the group was not disassociated
\* and the terminate call went through
await_terminated(m, sg_association, instance, instance_id) ==
    IF sg_association # "True" /\ instance # "None"
    THEN {r.m : r \in wait_until_terminated(m, instance_id)}
    ELSE {m}

\* remove_vpn_info without the isfile test: os.remove raises on a missing file.
remove_vpn_info_unchecked(m) ==
    IF m.vpn_info.exists
    THEN [Call(m, "remove_vpn_info", "ok", None, "") EXCEPT !.vpn_info = NoFile]
    ELSE Raise(Call(m, "remove_vpn_info", "error", None, ""), "FileNotFoundError")

\* delete_vpn_server: os.remove(env.vpn_info) if os.path.isfile(env.vpn_info)
remove_vpn_info(m) ==
    IF m.vpn_info.exists
    THEN [Call(m, "remove_vpn_info", "ok", None, "") EXCEPT !.vpn_info = NoFile]
    ELSE m

\* teardown gated the way shutdown_vpn of src/vpn.py is: the group and the
\* record are dealt with only if the key pair delete and the terminate succeeded.
teardown_gated(m, instance_id, security_group_id, entrypoint, public_ip) ==
    UNION { UNION { UNION {
        IF r1.ret = "False" \/ r3.ret = "None"
        THEN {Out(r3.m, "None")}
        ELSE UNION { UNION {
                {Out(remove_vpn_info(r6.m), "None") :
                    r6 \in _delete_security_group(x5, security_group_id)}
                : x5 \in await_terminated(x4, r2.ret, r3.ret, instance_id)}
                : x4 \in delete_record(r3.m, entrypoint, public_ip)}
        : r3 \in _terminate_ec2_instance(r2.m, instance_id)}
        : r2 \in _disassociate_security_group(r1.m, security_group_id, instance_id)}
        : r1 \in _delete_key_pair(m)}

\* VPNServer.delete_vpn_server, after its input check and _init(False)
teardown(m, instance_id, security_group_id, entrypoint, public_ip) ==
    UNION { UNION { UNION { UNION { UNION {
        {Out(remove_vpn_info(r6.m), "None") : r6 \in _delete_security_group(x5, security_group_id)}
        : x5 \in await_terminated(x4, r2.ret, r3.ret, instance_id)}
        : x4 \in delete_record(r3.m, entrypoint, public_ip)}
        : r3 \in _terminate_ec2_instance(r2.m, instance_id)}
        : r2 \in _disassociate_security_group(r1.m, security_group_id, instance_id)}
        : r1 \in _delete_key_pair(m)}

\* input_ok with "or" for "and": one id is taken to be enough.
input_ok_either(m, a) ==
    m.vpn_info.exists \/ (a.instance_id # None \/ a.security_group_id # None)

\* The input check of delete_vpn_server: with no record file, both ids are required.
input_ok(m, a) ==
    m.vpn_info.exists \/ (a.instance_id # None /\ a.security_group_id # None)

\* VPNServer.delete_vpn_server
delete_vpn_server(m, a) ==
    IF ~input_ok(m, a)
    THEN {Out(Raise(m, "AssertionError"), "None")}
    ELSE LET data == m.vpn_info
         IN  UNION {teardown(r0.m,
                        IF a.instance_id # None THEN a.instance_id ELSE data.instance_id,
                        IF a.security_group_id # None THEN a.security_group_id
                                                       ELSE data.security_group_id,
                        IF a.entrypoint # "" THEN a.entrypoint ELSE data.entrypoint,
                        IF a.public_ip # None THEN a.public_ip ELSE data.public_ip)
                    : r0 \in _init(m, FALSE)}

\* What _configure_vpn does once all SSHAttempts connection attempts failed.
connect_failed(m) ==
    {Out(IF r.m.exc # "" THEN r.m ELSE Raise(r.m, "TimeoutError"), "None") :
        r \in delete_vpn_server(m, NoArgs)}

\* _configure_vpn with one connection attempt more than SSHAttempts.
_configure_vpn_one_more(m, public_dns) ==
    LET up == public_dns \in InstIds /\ m.instances[public_dns].state = "running"
    IN  UNION {connect_failed(FailedAttempts(m, public_dns, SSHAttempts + 1))}
        \cup
        (IF up
         THEN {Out(Call(Call(FailedAttempts(m, public_dns, k - 1),
                             "ssh_connect", "ok", public_dns, "configure"),
                        "run_interactive_ssh", "ok", public_dns, ""), "None")
               : k \in {1, SSHAttempts + 1}}
         ELSE {})

\* VPNServer._configure_vpn
_configure_vpn(m, public_dns) ==
    LET up == public_dns \in InstIds /\ m.instances[public_dns].state = "running"
    IN  UNION {connect_failed(FailedAttempts(m, public_dns, SSHAttempts))}
        \cup
        (IF up
         THEN {Out(Call(Call(FailedAttempts(m, public_dns, k - 1),
                             "ssh_connect", "ok", public_dns, "configure"),
                        "run_interactive_ssh", "ok", public_dns, ""), "None")
               : k \in {1, SSHAttempts}}
         ELSE {})

\* ec2_resource.create_instances in _create_ec2_instance, and its except branch.
\* The provider refuses a launch beyond its quota and one with a malformed image id.
launch(m, security_group_id) ==
    {Out(r2.m, <<None, None>>) :
        r2 \in UNION {_delete_security_group(r1.m, security_group_id) :
                        r1 \in _delete_key_pair(
                            Call(m, "create_instances", "error", None, m.image_id))}}
    \cup
    (IF m.next_instance <= MaxInstances /\ m.image_id # Placeholder
     THEN {Out([Call(m, "create_instances", "ok", m.next_instance, m.image_id)
                  EXCEPT !.instances[m.next_instance] =
                             [state |-> "pending", group |-> security_group_id,
                              image |-> m.image_id],
                         !.next_instance = @ + 1],
               <<m.next_instance, security_group_id>>)}
     ELSE {})

\* The step of _create_ec2_instance that follows a created security group.
after_security_group(m, security_group_id) ==
    UNION {IF r.m.exc # "" \/ r.ret # "True"
           THEN {Out(r.m, <<None, None>>)}
           ELSE launch(r.m, security_group_id)
           : r \in _create_key_pair(m, 0)}

\* VPNServer._create_ec2_instance
_create_ec2_instance(m) ==
    UNION {IF r.m.exc # ""
           THEN {Out(r.m, <<None, None>>)}
           ELSE IF r.ret = None
           THEN {Out(d.m, <<None, None>>) : d \in _delete_key_pair(r.m)}
           ELSE after_security_group(r.m, r.ret)
           : r \in _create_security_group(m)}

\* rollback_not_running giving up at the first compensating call that fails.
rollback_not_running_gated(m, instance_id, security_group_id) ==
    UNION {IF r1.ret # "True"
           THEN {Out(r1.m, "None")}
           ELSE UNION {IF r2.ret # "True"
                       THEN {Out(r2.m, "None")}
                       ELSE UNION {IF r3.ret = "None"
                                   THEN {Out(r3.m, "None")}
                                   ELSE {Out(r4.m, "None") :
                                           r4 \in _delete_security_group(r3.m, security_group_id)}
                                   : r3 \in _terminate_ec2_instance(r2.m, instance_id)}
                       : r2 \in _disassociate_security_group(r1.m, security_group_id, instance_id)}
           : r1 \in _delete_key_pair(m)}

\* create_vpn_server, the except WaiterError branch of wait_until_running
rollback_not_running(m, instance_id, security_group_id) ==
    UNION { UNION { UNION {
        {Out(r4.m, "None") : r4 \in _delete_security_group(r3.m, security_group_id)}
        : r3 \in _terminate_ec2_instance(r2.m, instance_id)}
        : r2 \in _disassociate_security_group(r1.m, security_group_id, instance_id)}
        : r1 \in _delete_key_pair(m)}

\* rollback_not_authorized without its wait: the group delete follows the
\* terminate call at once, as it does in the except WaiterError branch.
rollback_not_authorized_no_wait(m, instance_id, security_group_id) ==
    UNION { UNION { UNION {
        {Out(r5.m, "None") : r5 \in _delete_security_group(r3.m, security_group_id)}
        : r3 \in _terminate_ec2_instance(r2.m, instance_id)}
        : r2 \in _disassociate_security_group(r1.m, security_group_id, instance_id)}
        : r1 \in _delete_key_pair(m)}

\* create_vpn_server, the branch taken when _authorize_security_group fails
rollback_not_authorized(m, instance_id, security_group_id) ==
    UNION { UNION { UNION { UNION {
        {Out(r5.m, "None") : r5 \in _delete_security_group(x4, security_group_id)}
        : x4 \in IF r2.ret # "True"
                 THEN {w.m : w \in wait_until_terminated(r3.m, instance_id)}
                 ELSE {r3.m}}
        : r3 \in _terminate_ec2_instance(r2.m, instance_id)}
        : r2 \in _disassociate_security_group(r1.m, security_group_id, instance_id)}
        : r1 \in _delete_key_pair(m)}

\* instance_info with the security group id left out.
instance_info_without_group(instance_id, security_group_id) ==
    [exists |-> TRUE, instance_id |-> instance_id, security_group_id |-> None,
     public_dns |-> instance_id, public_ip |-> instance_id, entrypoint |-> ""]

\* The record create_vpn_server builds from the reloaded instance.
instance_info(instance_id, security_group_id) ==
    [exists |-> TRUE, instance_id |-> instance_id, security_group_id |-> security_group_id,
     public_dns |-> instance_id, public_ip |-> instance_id, entrypoint |-> ""]

\* The key file left as _create_key_pair wrote it.
narrow_key_file_skipped(m) == m

\* os.chmod(settings.key_pair_file, 0o400)
narrow_key_file(m) ==
    [Call(m, "chmod", "ok", None, "0400") EXCEPT !.key_pair_file = "0400"]

\* A failed final probe answered with the teardown of the deployment.
probe_failed_rollback(m) == delete_vpn_server(m, NoArgs)

\* create_vpn_server when the final probe reports unhealthy: log and return.
probe_failed(m) == {Out(m, "None")}

\* persist in the order of the steps as listed: the record is written, then
\* the key file is narrowed.
persist_record_first(m, instance_id, security_group_id) ==
    narrow_key_file([Call(m, "write_vpn_info", "ok", instance_id, "")
                       EXCEPT !.vpn_info = instance_info(instance_id, security_group_id)])

\* create_vpn_server: os.chmod on the key file, then the record file is written.
persist(m, instance_id, security_group_id) ==
    [Call(narrow_key_file(m), "write_vpn_info", "ok", instance_id, "")
       EXCEPT !.vpn_info = instance_info(instance_id, security_group_id)]

\* create_vpn_server from the os.chmod on: narrow the key file, write the
\* record, configure, bind the entrypoint, probe.
persist_and_configure(m, instance_id, security_group_id) ==
    LET info == instance_info(instance_id, security_group_id)
        m2 == persist(m, instance_id, security_group_id)
        bind(x) ==
            IF SettingsEntrypoint(x.env) # ""
            THEN {[Call(r.m, "write_vpn_info", "ok", instance_id, "entrypoint")
                     EXCEPT !.vpn_info = [info EXCEPT !.entrypoint = SettingsEntrypoint(x.env)]]
                  : r \in change_record_set(x, SettingsEntrypoint(x.env), info.public_ip, "UPSERT")}
            ELSE {x}
    IN  UNION {IF c.m.exc # ""
               THEN {c}
               ELSE UNION { UNION {
                        IF t.m.exc = "" /\ t.ret # "True"
                        THEN probe_failed(t.m)
                        ELSE {Out(t.m, "None")}
                        : t \in _tester(x, [info EXCEPT !.entrypoint = SettingsEntrypoint(x.env)])}
                        : x \in bind(c.m)}
               : c \in _configure_vpn(m2, info.public_dns)}

\* after_launch with the record written as soon as the instance is running,
\* before the ingress rules are authorized.
after_launch_record_first(m, instance_id, security_group_id) ==
    UNION {IF w.ret = "WaiterError"
           THEN rollback_not_running(w.m, instance_id, security_group_id)
           ELSE UNION {IF a.ret # "True"
                       THEN rollback_not_authorized(a.m, instance_id, security_group_id)
                       ELSE persist_and_configure(a.m, instance_id, security_group_id)
                       : a \in _authorize_security_group(
                                  [Call(w.m, "write_vpn_info", "ok", instance_id, "")
                                     EXCEPT !.vpn_info = instance_info(instance_id, security_group_id)],
                                  security_group_id)}
           : w \in wait_until_running(m, instance_id)}

\* create_vpn_server once _create_ec2_instance returned the two ids
after_launch(m, instance_id, security_group_id) ==
    UNION {IF w.ret = "WaiterError"
           THEN rollback_not_running(w.m, instance_id, security_group_id)
           ELSE UNION {IF a.ret # "True"
                       THEN rollback_not_authorized(a.m, instance_id, security_group_id)
                       ELSE persist_and_configure(a.m, instance_id, security_group_id)
                       : a \in _authorize_security_group(w.m, security_group_id)}
           : w \in wait_until_running(m, instance_id)}

\* reconfigure without the test of the probe's result: it always configures.
reconfigure_always(m) ==
    LET data == m.vpn_info
        m1 == [m EXCEPT !.env.image_id = Placeholder]
    IN  UNION { UNION {
            IF t.m.exc # ""
            THEN {Out(t.m, "None")}
            ELSE _configure_vpn(t.m, data.public_dns)
            : t \in _tester(i.m, data)}
            : i \in _init(m1, TRUE)}

\* create_vpn_server, the branch for an existing record and key file
reconfigure(m) ==
    LET data == m.vpn_info
        m1 == [m EXCEPT !.env.image_id = Placeholder]
    IN  UNION { UNION {
            IF t.m.exc # "" \/ t.ret = "True"
            THEN {Out(t.m, "None")}
            ELSE _configure_vpn(t.m, data.public_dns)
            : t \in _tester(i.m, data)}
            : i \in _init(m1, TRUE)}

\* The test that sends create_vpn_server to re-configuration.
session_exists(m) == m.vpn_info.exists /\ m.key_pair_file # "absent"

\* create_vpn_server as its docstring has it for a repeated request: a new
\* instance regardless of existing info.
create_vpn_server_regardless(m) ==
    UNION { UNION {
        IF e.m.exc # "" \/ e.ret = <<None, None>>
        THEN {Out(e.m, "None")}
        ELSE after_launch(e.m, e.ret[1], e.ret[2])
        : e \in _create_ec2_instance(i.m)}
        : i \in _init(m, TRUE)}

\* VPNServer.test_vpn; the log entry "_tester" holds what _tester returned.
test_vpn(m) ==
    IF session_exists(m)
    THEN {IF t.m.exc # ""
          THEN Out(t.m, "None")
          ELSE Out(Call(t.m, "_tester", t.ret, None, ""), "None")
          : t \in _tester(m, m.vpn_info)}
    ELSE {Out(m, "None")}

\* VPNServer.create_vpn_server
create_vpn_server(m) ==
    IF session_exists(m)
    THEN reconfigure(m)
    ELSE UNION { UNION {
            IF e.m.exc # "" \/ e.ret = <<None, None>>
            THEN {Out(e.m, "None")}
            ELSE after_launch(e.m, e.ret[1], e.ret[2])
            : e \in _create_ec2_instance(i.m)}
            : i \in _init(m, TRUE)}

\* ----------------------------------------------------------------- actions
NoPrev == [op |-> "none", args |-> NoArgs]

\* Between calls: nothing is being reported; prev remembers the call before
\* when it was a delete_vpn_server that returned.
NoCall(prev) ==
    [op |-> "none", args |-> NoArgs, log |-> <<>>, exc |-> "", prev |-> prev,
     pre |-> [key_pair |-> FALSE, security_group |-> None,
              instances |-> [i \in InstIds |-> NoInstance], dns_record |-> NoDns,
              vpn_info |-> NoFile, key_pair_file |-> "absent"]]

Idle == last.op = "none"

\* The state a handler leaves, and what is remembered of the call; the call
\* before is remembered when this one repeats it.
Commit(m, op, a) ==
    /\ key_pair' = m.key_pair
    /\ security_group' = m.security_group
    /\ instances' = m.instances
    /\ dns_record' = m.dns_record
    /\ vpn_info' = m.vpn_info
    /\ key_pair_file' = m.key_pair_file
    /\ env' = m.env
    /\ image_id' = m.image_id
    /\ zone_id' = m.zone_id
    /\ next_instance' = m.next_instance
    /\ next_group' = m.next_group
    /\ last' = [op |-> op, args |-> a, pre |-> Snapshot(Machine), log |-> m.log,
                exc |-> m.exc,
                prev |-> IF op = last.prev.op /\ a = last.prev.args
                         THEN last.prev ELSE NoPrev]
    /\ poll' = poll

\* An entrypoint a caller passes to delete_vpn_server, other than the
\* configured one.
CallerEntrypoint == "custom.example.com"

\* The arguments delete_vpn_server is called with: none, or the ids the
\* provider handed out last, with or without that instance's public IP,
\* and with the public IP possibly an entrypoint.
DeleteArgs ==
    {a \in [instance_id : {None} \cup {i \in InstIds : i + 1 = next_instance},
            security_group_id : {None} \cup {g \in 1 .. MaxGroups : g + 1 = next_group},
            entrypoint : {"", CallerEntrypoint},
            public_ip : {None} \cup {i \in InstIds : i + 1 = next_instance}] :
        /\ a.public_ip # None =>
              a.instance_id = a.public_ip /\ a.security_group_id # None
        /\ a.entrypoint # "" => a.public_ip # None}

\* A caller invokes create_vpn_server.
CreateVpnServer ==
    /\ Idle
    /\ \E r \in create_vpn_server(Machine) : Commit(r.m, "create_vpn_server", NoArgs)

\* A caller invokes delete_vpn_server.
DeleteVpnServer ==
    /\ Idle
    /\ \E a \in DeleteArgs : \E r \in delete_vpn_server(Machine, a) :
          Commit(r.m, "delete_vpn_server", a)

\* A caller invokes test_vpn.
TestVpn ==
    /\ Idle
    /\ \E r \in test_vpn(Machine) : Commit(r.m, "test_vpn", NoArgs)

\* The call has returned or raised; the caller is ready for the next one.
Returned ==
    /\ ~Idle
    /\ last' = NoCall(IF last.op = "delete_vpn_server" /\ last.exc = ""
                        THEN [op |-> last.op, args |-> last.args]
                        ELSE NoPrev)
    /\ UNCHANGED <<key_pair, security_group, instances, dns_record, vpn_info,
                   key_pair_file, env, image_id, zone_id, next_instance, next_group,
                   poll>>

\* The provider finishes shutting an instance down.
InstanceTerminated ==
    /\ Idle
    /\ \E i \in InstIds :
          /\ instances[i].state = "shutting-down"
          /\ instances' = [instances EXCEPT ![i].state = "terminated"]
    /\ UNCHANGED <<key_pair, security_group, dns_record, vpn_info, key_pair_file,
                   env, image_id, zone_id, next_instance, next_group, last, poll>>

\* The key file goes missing while the record file stays: the two files are
\* separate, and create_vpn_server tests for each of them.
KeyFileRemoved ==
    /\ Idle
    /\ vpn_info.exists
    /\ key_pair_file # "absent"
    /\ key_pair_file' = "absent"
    /\ UNCHANGED <<key_pair, security_group, instances, dns_record, vpn_info,
                   env, image_id, zone_id, next_instance, next_group, last, poll>>

\* The configurations of env the model runs under.
Configs ==
    {[image_id |-> "", hosted_zone |-> FALSE, subdomain |-> FALSE],
     [image_id |-> "ami-user", hosted_zone |-> TRUE, subdomain |-> TRUE],
     [image_id |-> "", hosted_zone |-> TRUE, subdomain |-> FALSE]}

\* A fresh process; a stale key pair or security group may be left at the provider.
Init ==
    /\ key_pair \in BOOLEAN
    /\ security_group \in {None, 1}
    /\ next_group = IF security_group = None THEN 1 ELSE 2
    /\ instances = [i \in InstIds |-> NoInstance]
    /\ next_instance = 1
    /\ dns_record = NoDns
    /\ vpn_info = NoFile
    /\ key_pair_file = "absent"
    /\ env \in Configs
    /\ image_id = ""
    /\ zone_id = ""
    /\ last = NoCall(NoPrev)
    /\ poll = NoPoll

Next ==
    \/ CreateVpnServer
    \/ DeleteVpnServer
    \/ TestVpn
    \/ Returned
    \/ InstanceTerminated
    \/ KeyFileRemoved

Spec == Init /\ [][Next]_vars

\* ----------------------------------------------- src/vpn.py: its helpers
\* The methods of the VPNServer of src/vpn.py carry the names of those of
\* src/vpn/main.py; here they are prefixed with vpn_.

\* src/vpn.py VPNServer._delete_key_pair
vpn__delete_key_pair(m) ==
    {Out(Call(m, "delete_key_pair", "error", None, ""), "False"),
     Out([Call(m, "delete_key_pair", "ok", None, "")
            EXCEPT !.key_pair = FALSE, !.key_pair_file = "absent"], "True")}

\* src/vpn.py VPNServer._create_key_pair: on a duplicate it deletes, calls
\* itself, and returns True whatever the inner call returned.
RECURSIVE vpn__create_key_pair(_, _)
vpn__create_key_pair(m, depth) ==
    IF depth > MaxRecursion
    THEN {Out(Raise(m, "RecursionError"), "False")}
    ELSE {Out(Call(m, "create_key_pair", "error", None, ""), "False")}
         \cup
         (IF m.key_pair
          THEN {Out(r.m, IF r.m.exc # "" THEN "False" ELSE "True") :
                  r \in UNION {vpn__create_key_pair(d.m, depth + 1) :
                                 d \in vpn__delete_key_pair(
                                          Call(m, "create_key_pair", "duplicate", None, ""))}}
          ELSE LET m1 == [Call(m, "create_key_pair", "ok", None, "") EXCEPT !.key_pair = TRUE]
               IN  IF m1.key_pair_file = "0400"
                   THEN {Out(Raise(m1, "PermissionError"), "False")}
                   ELSE {Out([m1 EXCEPT !.key_pair_file = "0644"], "True")})

\* src/vpn.py VPNServer._get_vpc_id and VPNServer._create_security_group
vpn__create_security_group(m) ==
    {Out(Call(m, "get_vpc_id", "error", None, ""), None)}
    \cup
    (LET m1 == Call(m, "get_vpc_id", "ok", None, "")
     IN  {Out(Call(m1, "create_security_group", "error", None, ""), None)}
         \cup
         (IF m1.security_group # None
          THEN LET m2 == Call(m1, "create_security_group", "duplicate", None, "")
               IN  {Out(Raise(Call(m2, "describe_security_groups", "error", None, ""),
                              "ClientError"), None),
                    Out(Call(m2, "describe_security_groups", "ok", m2.security_group, ""),
                        m2.security_group)}
          ELSE IF m1.next_group <= MaxGroups
               THEN {Out([Call(m1, "create_security_group", "ok", m1.next_group, "")
                            EXCEPT !.security_group = m1.next_group, !.next_group = @ + 1],
                         m1.next_group)}
               ELSE {}))

\* src/vpn.py VPNServer._authorize_security_group
vpn__authorize_security_group(m, security_group_id) ==
    {Out(Call(m, "authorize_ingress", "error", security_group_id, ""), "False")}
    \cup
    (IF m.security_group = security_group_id
     THEN {Out(Call(m, "authorize_ingress", "ok", security_group_id, ""), "True")}
     ELSE {})

\* src/vpn.py VPNServer._delete_security_group: with no id it takes the one
\* in the server file, and gives up when there is no server file.
vpn__delete_security_group(m, security_group_id) ==
    IF security_group_id = None /\ ~m.vpn_info.exists
    THEN {Out(m, "False")}
    ELSE LET id == IF security_group_id # None THEN security_group_id
                                               ELSE m.vpn_info.security_group_id
             exists == id # None /\ m.security_group = id
             attached == \E i \in InstIds : /\ m.instances[i].group = id
                                             /\ m.instances[i].state \in Live
         IN  {Out(Call(m, "delete_security_group", "error", id, ""), "False")}
             \cup
             (IF ~exists
              THEN {Out(Call(m, "delete_security_group", "not_found", id, ""), "False")}
              ELSE IF attached
              THEN {Out(Call(m, "delete_security_group", "dependency", id, ""), "False")}
              ELSE {Out([Call(m, "delete_security_group", "ok", id, "")
                           EXCEPT !.security_group = None], "True")})

\* src/vpn.py VPNServer._terminate_ec2_instance: with no id it takes the one
\* in the server file, and gives up when there is no server file.
vpn__terminate_ec2_instance(m, instance_id) ==
    IF instance_id = None /\ ~m.vpn_info.exists
    THEN {Out(m, "False")}
    ELSE LET id == IF instance_id # None THEN instance_id ELSE m.vpn_info.instance_id
         IN  {Out(Call(m, "terminate", "error", id, ""), "False")}
             \cup
             (IF id \in InstIds /\ m.instances[id].state # "none"
              THEN {Out([Call(m, "terminate", "ok", id, "")
                           EXCEPT !.instances[id].state =
                                      IF @ = "terminated" THEN @ ELSE "shutting-down"], "True")}
              ELSE {})

\* _create_ec2_instance of src/vpn.py, its undo of key pair and group: the
\* group delete is called without the id.
vpn__undo(m) ==
    {Out(g.m, <<None, None>>) :
        g \in UNION {vpn__delete_security_group(d.m, None) : d \in vpn__delete_key_pair(m)}}

\* src/vpn.py VPNServer._create_ec2_instance, from run_instances on
vpn__run_instances(m, security_group_id) ==
    vpn__undo(Call(m, "run_instances", "error", None, m.env.image_id))
    \cup
    (IF m.next_instance <= MaxInstances
     THEN {Out([Call(m, "run_instances", "ok", m.next_instance, m.env.image_id)
                  EXCEPT !.instances[m.next_instance] =
                             [state |-> "pending", group |-> security_group_id,
                              image |-> m.env.image_id],
                         !.next_instance = @ + 1],
               <<m.next_instance, security_group_id>>)}
     ELSE {})

\* src/vpn.py VPNServer._create_ec2_instance, once the key pair is there
vpn__after_key_pair(m) ==
    UNION {IF g.m.exc # ""
           THEN {Out(g.m, <<None, None>>)}
           ELSE IF g.ret = None
           THEN {Out(d.m, <<None, None>>) : d \in vpn__delete_key_pair(g.m)}
           ELSE UNION {IF a.ret # "True"
                       THEN vpn__undo(a.m)
                       ELSE vpn__run_instances(a.m, g.ret)
                       : a \in vpn__authorize_security_group(g.m, g.ret)}
           : g \in vpn__create_security_group(m)}

\* src/vpn.py VPNServer._create_ec2_instance
vpn__create_ec2_instance(m) ==
    IF m.env.image_id = ""
    THEN {Out(m, <<None, None>>)}
    ELSE UNION {IF k.m.exc # "" \/ k.ret # "True"
                THEN {Out(k.m, <<None, None>>)}
                ELSE vpn__after_key_pair(k.m)
                : k \in vpn__create_key_pair(m, 0)}

\* ------------------------------------------ src/vpn.py: startup, shutdown
\* VPNServer._instance_info of src/vpn.py, one pass of its while True loop:
\* describe_instance_status raises ClientError and the method returns None;
\* or the instance is reported running and its public DNS name and IP are
\* returned; or (status code not 200, no status yet, another state) it
\* sleeps and goes round again.
_instance_info(p, state) ==
    LET n == IF p.polls < MaxPolls THEN p.polls + 1 ELSE p.polls
    IN  {[p EXCEPT !.pc = "returned", !.polls = n, !.ret = "None", !.errors = @ + 1],
         [p EXCEPT !.pc = "sleeping", !.polls = n]}
        \cup
        (IF state = "running"
         THEN {[p EXCEPT !.pc = "returned", !.polls = n, !.ret = "info"]}
         ELSE {})

\* The 180 seconds shutdown_vpn sleeps after the terminate call: the
\* instance may or may not have reached terminated by then.
slept(m) ==
    {m, [m EXCEPT !.instances = [i \in InstIds |->
                     IF @[i].state = "shutting-down"
                     THEN [@[i] EXCEPT !.state = "terminated"] ELSE @[i]]]}

\* src/vpn.py VPNServer.shutdown_vpn
shutdown_vpn(m) ==
    UNION {IF d.ret # "True"
           THEN {Out(d.m, "None")}
           ELSE UNION {IF t.ret # "True"
                       THEN {Out(t.m, "None")}
                       ELSE UNION {{IF g.ret = "True" /\ g.m.vpn_info.exists
                                    THEN Out([Call(g.m, "remove_server_file", "ok", None, "")
                                                EXCEPT !.vpn_info = NoFile], "None")
                                    ELSE Out(g.m, "None")
                                    : g \in vpn__delete_security_group(x, None)}
                                   : x \in slept(t.m)}
                       : t \in vpn__terminate_ec2_instance(d.m, None)}
           : d \in vpn__delete_key_pair(m)}

\* A process of src/vpn.py between two calls.
Ready == [NoPoll EXCEPT !.pc = "ready"]

\* The state a step of src/vpn.py leaves: m for the provider and the files,
\* l for the call being reported, q for the position in startup_vpn.
CommitVpn(m, l, q) ==
    /\ key_pair' = m.key_pair
    /\ security_group' = m.security_group
    /\ instances' = m.instances
    /\ dns_record' = m.dns_record
    /\ vpn_info' = m.vpn_info
    /\ key_pair_file' = m.key_pair_file
    /\ env' = m.env
    /\ image_id' = m.image_id
    /\ zone_id' = m.zone_id
    /\ next_instance' = m.next_instance
    /\ next_group' = m.next_group
    /\ last' = l
    /\ poll' = q

\* What is reported of a call of src/vpn.py that ran on from Machine to m.
Report(op, m) ==
    [op |-> op, args |-> NoArgs, pre |-> Snapshot(Machine), log |-> m.log,
     exc |-> m.exc, prev |-> NoPrev]

\* startup_vpn is invoked and runs _create_ec2_instance.
StartupVpn ==
    /\ poll.pc = "ready"
    /\ \E r \in vpn__create_ec2_instance(Machine) :
          CommitVpn(r.m, Report("startup_vpn", r.m),
                    IF r.m.exc = "" /\ r.ret # <<None, None>>
                    THEN [Ready EXCEPT !.pc = "polling", !.instance_id = r.ret[1],
                                       !.security_group_id = r.ret[2]]
                    ELSE [Ready EXCEPT !.pc = "ended"])

\* One describe_instance_status call of _instance_info on the launched instance.
DescribeInstanceStatus ==
    /\ poll.pc = "polling"
    /\ \E q \in _instance_info(poll, instances[poll.instance_id].state) : poll' = q
    /\ UNCHANGED <<key_pair, security_group, instances, dns_record, vpn_info,
                   key_pair_file, env, image_id, zone_id, next_instance, next_group, last>>

\* sleep(3), then the next pass of the loop.
Sleep ==
    /\ poll.pc = "sleeping"
    /\ poll' = [poll EXCEPT !.pc = "polling"]
    /\ UNCHANGED <<key_pair, security_group, instances, dns_record, vpn_info,
                   key_pair_file, env, image_id, zone_id, next_instance, next_group, last>>

\* The provider brings the launched instance up.
InstanceRunning ==
    /\ poll.pc \in {"polling", "sleeping"}
    /\ instances[poll.instance_id].state = "pending"
    /\ instances' = [instances EXCEPT ![poll.instance_id].state = "running"]
    /\ UNCHANGED <<key_pair, security_group, dns_record, vpn_info, key_pair_file,
                   env, image_id, zone_id, next_instance, next_group, last, poll>>

\* startup_vpn when _instance_info returned None: it returns.
InstanceInfoFailed ==
    /\ poll.pc = "returned" /\ poll.ret = "None"
    /\ poll' = [poll EXCEPT !.pc = "ended"]
    /\ UNCHANGED <<key_pair, security_group, instances, dns_record, vpn_info,
                   key_pair_file, env, image_id, zone_id, next_instance, next_group, last>>

\* startup_vpn writes the server file.
WriteServerFile ==
    /\ poll.pc = "returned" /\ poll.ret = "info"
    /\ vpn_info' = instance_info(poll.instance_id, poll.security_group_id)
    /\ last' = [last EXCEPT !.log = Append(@, [call |-> "write_server_file", res |-> "ok",
                                                id |-> poll.instance_id, arg |-> ""])]
    /\ poll' = [poll EXCEPT !.pc = "written"]
    /\ UNCHANGED <<key_pair, security_group, instances, dns_record, key_pair_file,
                   env, image_id, zone_id, next_instance, next_group>>

\* startup_vpn runs chmod 400 on the key file.
ChmodKeyFile ==
    /\ poll.pc = "written"
    /\ key_pair_file' = IF key_pair_file = "absent" THEN "absent" ELSE "0400"
    /\ last' = [last EXCEPT !.log = Append(@, [call |-> "chmod", res |-> "ok",
                                                id |-> None, arg |-> "0400"])]
    /\ poll' = [poll EXCEPT !.pc = "narrowed"]
    /\ UNCHANGED <<key_pair, security_group, instances, dns_record, vpn_info,
                   env, image_id, zone_id, next_instance, next_group>>

\* startup_vpn waits for the SSH origin and runs _configure_vpn, which adds
\* the login details to the server file.
ConfigureVpn ==
    /\ poll.pc = "narrowed"
    /\ \E res \in {"ok", "error"} :
          last' = [last EXCEPT !.log = Append(@, [call |-> "configure_vpn", res |-> res,
                                                  id |-> poll.instance_id, arg |-> ""])]
    /\ poll' = [poll EXCEPT !.pc = "ended"]
    /\ UNCHANGED <<key_pair, security_group, instances, dns_record, vpn_info,
                   key_pair_file, env, image_id, zone_id, next_instance, next_group>>

\* shutdown_vpn is invoked.
ShutdownVpn ==
    /\ poll.pc = "ready"
    /\ \E r \in shutdown_vpn(Machine) :
          CommitVpn(r.m, Report("shutdown_vpn", r.m), [Ready EXCEPT !.pc = "ended"])

\* The call of src/vpn.py has returned or raised.
VpnReturned ==
    /\ poll.pc = "ended"
    /\ poll' = Ready
    /\ last' = NoCall(NoPrev)
    /\ UNCHANGED <<key_pair, security_group, instances, dns_record, vpn_info,
                   key_pair_file, env, image_id, zone_id, next_instance, next_group>>

\* The provider finishes shutting an instance down, between two calls.
VpnInstanceTerminated ==
    /\ poll.pc = "ready"
    /\ \E i \in InstIds :
          /\ instances[i].state = "shutting-down"
          /\ instances' = [instances EXCEPT ![i].state = "terminated"]
    /\ UNCHANGED <<key_pair, security_group, dns_record, vpn_info, key_pair_file,
                   env, image_id, zone_id, next_instance, next_group, last, poll>>

\* A fresh process of src/vpn.py, with or without an AMI id in its
\* environment; a stale key pair or security group may be left at the provider.
InitPoll ==
    /\ key_pair \in BOOLEAN
    /\ security_group \in {None, 1}
    /\ next_group = IF security_group = None THEN 1 ELSE 2
    /\ instances = [i \in InstIds |-> NoInstance]
    /\ next_instance = 1
    /\ dns_record = NoDns
    /\ vpn_info = NoFile
    /\ key_pair_file = "absent"
    /\ env \in {[image_id |-> "ami-user", hosted_zone |-> FALSE, subdomain |-> FALSE],
                 [image_id |-> "", hosted_zone |-> FALSE, subdomain |-> FALSE]}
    /\ image_id = ""
    /\ zone_id = ""
    /\ last = NoCall(NoPrev)
    /\ poll = Ready

NextPoll ==
    \/ StartupVpn
    \/ DescribeInstanceStatus
    \/ Sleep
    \/ InstanceRunning
    \/ InstanceInfoFailed
    \/ WriteServerFile
    \/ ChmodKeyFile
    \/ ConfigureVpn
    \/ ShutdownVpn
    \/ VpnReturned
    \/ VpnInstanceTerminated

\* The process keeps running: a poll that can be made is made, a sleep ends.
SpecPoll ==
    InitPoll /\ [][NextPoll]_vars /\ WF_vars(DescribeInstanceStatus) /\ WF_vars(Sleep)

\* Either program: a process of src/vpn/main.py or a process of src/vpn.py.
NextBoth ==
    \/ poll = NoPoll /\ Next
    \/ NextPoll

SpecBoth == (Init \/ InitPoll) /\ [][NextBoth]_vars

\* ------------------------------------------------------ reading a call
Entries == {last.log[k] : k \in DOMAIN last.log}

Issued(call) == \E e \in Entries : e.call = call

IssuedWith(call, res) == \E e \in Entries : e.call = call /\ e.res = res

Created == "create_vpn_server"

Deleted == "delete_vpn_server"

\* The last call was create_vpn_server, started with no record file.
FreshCreate == last.op = Created /\ ~last.pre.vpn_info.exists

\* The last call was create_vpn_server, started with a record file and a key file.
ReEntry == last.op = Created /\ last.pre.vpn_info.exists /\ last.pre.key_pair_file # "absent"

\* One of steps 1-5 of a fresh create_vpn_server failed.
StepFailed ==
    \/ \E e \in Entries :
          /\ e.res = "error"
          /\ e.call \in {"get_vpc_id", "create_security_group", "list_security_groups",
                         "create_key_pair", "create_instances", "wait_until_running",
                         "authorize_ingress"}
    \/ last.exc \in {"RecursionError", "PermissionError"}

\* Every delete and terminate call the last call issued went through.
ReleaseCallsSucceeded ==
    \A e \in Entries :
        e.call \in {"delete_key_pair", "terminate", "delete_security_group"} => e.res = "ok"

\* What the last call created is gone: the group, the key pair with its
\* file, the instance (terminated or shutting down).
CreatedGroupReleased ==
    \A e \in Entries :
        e.call = "create_security_group" /\ e.res = "ok" => security_group # e.id

CreatedKeyPairReleased ==
    IssuedWith("create_key_pair", "ok") => ~key_pair /\ key_pair_file = "absent"

CreatedInstanceReleased ==
    \A e \in Entries :
        e.call = "create_instances" /\ e.res = "ok" =>
            instances[e.id].state \in {"shutting-down", "terminated"}

\* ------------------------------------------------------------------ claims
\* C1: a fresh create_vpn_server in which one of steps 1-5 failed has, when
\* it returns, released every resource it created (security group, key pair
\* and key file, instance), provided its delete and terminate calls succeeded.
C1_RollbackReleasesAll ==
    FreshCreate /\ StepFailed /\ ReleaseCallsSucceeded =>
        CreatedGroupReleased /\ CreatedKeyPairReleased /\ CreatedInstanceReleased

\* C2: a fresh create_vpn_server in which one of steps 1-5 failed leaves no
\* record file, and a record is written only after authorize_ingress succeeded.
C2_NoRecordBeforeAuthorized ==
    FreshCreate =>
        /\ StepFailed => ~vpn_info.exists /\ ~Issued("write_vpn_info")
        /\ \A k \in DOMAIN last.log :
              last.log[k].call = "write_vpn_info" =>
                  \E j \in 1 .. k - 1 :
                      last.log[j].call = "authorize_ingress" /\ last.log[j].res = "ok"

\* C2's case: the instance was launched, authorization failed, no record was left.
C2_Witness ==
    /\ FreshCreate
    /\ IssuedWith("create_instances", "ok")
    /\ IssuedWith("authorize_ingress", "error")
    /\ ~vpn_info.exists

\* ------------------------------------------------ more reading of a call
Now == Snapshot(Machine)

ConfigureAttempts ==
    {k \in DOMAIN last.log : last.log[k].call = "ssh_connect" /\ last.log[k].arg = "configure"}

\* _configure_vpn was entered (the probe, if any, had reported unhealthy).
Configured == ConfigureAttempts # {}

\* Every one of the SSHAttempts connection attempts of _configure_vpn failed.
ConfigureFailed ==
    /\ Cardinality(ConfigureAttempts) = SSHAttempts
    /\ \A k \in ConfigureAttempts : last.log[k].res = "error"

\* Call k of the log was issued after _configure_vpn started connecting.
AfterConfigure(k) == \E j \in ConfigureAttempts : j < k

BothIds(a) == a.instance_id # None /\ a.security_group_id # None

\* C3: when every SSH connection attempt of _configure_vpn fails, the call
\* ends with TimeoutError and nothing is rolled back: no key-pair delete,
\* terminate or group delete follows, and the record file still exists.
C3_NoRollbackOnConfigureFailure ==
    last.op = Created /\ ConfigureFailed =>
        /\ last.exc = "TimeoutError"
        /\ \A k \in DOMAIN last.log :
              AfterConfigure(k) =>
                  last.log[k].call \notin {"delete_key_pair", "terminate", "delete_security_group"}
        /\ vpn_info.exists

\* C4: a delete_vpn_server whose terminate call or group delete call failed
\* leaves the record file it started with in place.
C4_RecordKeptUntilReleased ==
    /\ last.op = Deleted
    /\ last.pre.vpn_info.exists
    /\ \/ IssuedWith("terminate", "error")
       \/ IssuedWith("delete_security_group", "error")
       \/ IssuedWith("delete_security_group", "dependency")
    => vpn_info.exists

C6_ReconfigureKeepsInstance ==
    ReEntry /\ Configured =>
        /\ \A k \in ConfigureAttempts : last.log[k].id = last.pre.vpn_info.public_dns
        /\ ~Issued("create_instances")
        /\ ~Issued("terminate")
        /\ vpn_info.exists
        /\ vpn_info.instance_id = last.pre.vpn_info.instance_id
        /\ instances[last.pre.vpn_info.instance_id] =
               last.pre.instances[last.pre.vpn_info.instance_id]

C8_TeardownAttemptsEveryStep ==
    last.op = Deleted /\ (last.pre.vpn_info.exists \/ BothIds(last.args)) =>
        /\ last.exc = ""
        /\ Issued("delete_key_pair")
        /\ Issued("disassociate")
        /\ Issued("terminate")
        /\ Issued("delete_security_group")
        /\ last.pre.vpn_info.exists => Issued("remove_vpn_info")
        /\ ~vpn_info.exists

\* C8's case: key-pair delete, disassociation and terminate all failed, and
\* the group delete and the record removal were still carried out.
C8_Witness ==
    /\ last.op = Deleted
    /\ IssuedWith("delete_key_pair", "error")
    /\ IssuedWith("disassociate", "error")
    /\ IssuedWith("terminate", "error")
    /\ Issued("delete_security_group")
    /\ Issued("remove_vpn_info")

\* C9: with no record file, delete_vpn_server called without both ids
\* raises AssertionError before any call is made and changes nothing.
C9_FailsFastWithoutIds ==
    last.op = Deleted /\ ~last.pre.vpn_info.exists /\ ~BothIds(last.args) =>
        /\ last.exc = "AssertionError"
        /\ last.log = <<>>
        /\ Now = last.pre

\* C9's case: only the instance id was passed, for an instance that is alive.
C9_Witness ==
    /\ last.op = Deleted
    /\ ~last.pre.vpn_info.exists
    /\ last.args.instance_id # None
    /\ last.args.security_group_id = None
    /\ instances[last.args.instance_id].state \in Live
    /\ last.exc = "AssertionError"

\* The second of two delete_vpn_server calls in a row with the same arguments.
SecondTeardown ==
    last.op = Deleted /\ last.prev.op = Deleted /\ last.prev.args = last.args

\* Key pair, instance and group named by the arguments, and the DNS record,
\* were gone when the call started.
AlreadyAbsent ==
    /\ ~last.pre.key_pair
    /\ last.pre.dns_record = NoDns
    /\ last.pre.security_group # last.args.security_group_id
    /\ last.pre.instances[last.args.instance_id].state \in {"none", "terminated"}

\* C10 as stated: the second of two delete_vpn_server calls in a row with
\* the same arguments, none included, completes without error.
C10_SecondTeardownSucceeds ==
    SecondTeardown => last.exc = ""

\* C10 as amended: called twice in a row with the same explicit instance id
\* and security-group id, delete_vpn_server returns both times, the second
\* time changing no provider resource when key pair, instance, group and
\* DNS record are already gone; called twice without both ids, the second call finds no
\* record file and raises AssertionError before any call is made.
C10_TeardownTwice ==
    SecondTeardown =>
        IF BothIds(last.args)
        THEN /\ last.exc = ""
             /\ AlreadyAbsent =>
                   /\ key_pair = last.pre.key_pair
                   /\ security_group = last.pre.security_group
                   /\ instances = last.pre.instances
                   /\ dns_record = last.pre.dns_record
        ELSE last.exc = "AssertionError" /\ last.log = <<>>

\* C10's case: the second call with explicit ids, on resources already gone.
C10_Witness ==
    /\ SecondTeardown
    /\ BothIds(last.args)
    /\ AlreadyAbsent
    /\ last.pre.instances[last.args.instance_id].state = "terminated"
    /\ IssuedWith("delete_security_group", "not_found")
    /\ last.exc = ""

\* ---------------------------------------------- order of calls in a log
\* Call k of the log follows a call named c that answered res.
Follows(k, c, res) ==
    \E j \in 1 .. k - 1 : last.log[j].call = c /\ last.log[j].res = res

\* Call k of the log follows a wait for the instance to be terminated.
FollowsWait(k) ==
    \E j \in 1 .. k - 1 : last.log[j].call = "wait_until_terminated"

\* Call k of the log follows an attempt to disassociate the group.
FollowsDisassociation(k) ==
    \E j \in 1 .. k - 1 : last.log[j].call = "disassociate"

\* C11: in create_vpn_server's rollbacks and in delete_vpn_server, a group
\* delete that finds the group still attached to an instance was issued
\* after the group was disassociated or after a wait for the instance to be
\* terminated; it is never issued on an attached group with neither.
C11_GroupDeleteAfterDetach ==
    \A k \in DOMAIN last.log :
        /\ last.log[k].call = "delete_security_group"
        /\ last.log[k].res = "dependency"
        /\ FollowsDisassociation(k)
        => Follows(k, "disassociate", "ok") \/ FollowsWait(k)

\* Ingress authorization failed on a launched, running instance.
AuthorizationFailed ==
    /\ FreshCreate
    /\ IssuedWith("wait_until_running", "ok")
    /\ IssuedWith("authorize_ingress", "error")

\* C12: when authorization fails after the launch, create_vpn_server issues
\* the key-pair delete, the terminate and the group delete and writes no
\* record; it waits for the instance to be terminated exactly when the
\* disassociation did not succeed; the group delete follows the terminate
\* call; and what the run created is released when those calls succeed.
C12_AuthorizationFailureRollback ==
    AuthorizationFailed =>
        /\ last.exc = ""
        /\ Issued("delete_key_pair") /\ Issued("terminate") /\ Issued("delete_security_group")
        /\ ~Issued("write_vpn_info") /\ ~vpn_info.exists
        /\ Issued("wait_until_terminated") <=> ~IssuedWith("disassociate", "ok")
        /\ \A k \in DOMAIN last.log :
              last.log[k].call = "delete_security_group" =>
                  \E j \in 1 .. k - 1 : last.log[j].call = "terminate"
        /\ ReleaseCallsSucceeded =>
              CreatedGroupReleased /\ CreatedKeyPairReleased /\ CreatedInstanceReleased

\* C12's case: the disassociation failed, the wait was taken, and the key
\* pair, the instance and the group were all released.
C12_Witness ==
    /\ AuthorizationFailed
    /\ IssuedWith("disassociate", "error")
    /\ IssuedWith("wait_until_terminated", "ok")
    /\ IssuedWith("delete_security_group", "ok")
    /\ ~key_pair /\ security_group = None

\* A fresh create_vpn_server whose final probe reported healthy.
SuccessEnd == FreshCreate /\ last.exc = "" /\ IssuedWith("test_service", "ok")

ProbeFailed == FreshCreate /\ Issued("https_get") /\ ~IssuedWith("test_service", "ok")

\* C14: when the final probe of a fresh create_vpn_server fails, no call
\* follows the probe's own (no delete, disassociate, terminate or record
\* removal), and the record file, the key pair with its file, the running
\* instance and the group all remain.
C14_ProbeFailureKeepsAll ==
    ProbeFailed =>
        /\ \A k \in DOMAIN last.log :
              (\E j \in 1 .. k - 1 : last.log[j].call = "https_get") =>
                  last.log[k].call \in {"ssh_connect", "test_service"}
        /\ \A e \in Entries : e.call = "change_record_set" => e.arg = "UPSERT"
        /\ ~Issued("remove_vpn_info")
        /\ vpn_info.exists
        /\ key_pair /\ key_pair_file # "absent"
        /\ instances[vpn_info.instance_id].state = "running"
        /\ security_group = vpn_info.security_group_id

\* C14's case: the host was configured, then the HTTPS request of the probe raised.
C14_Witness ==
    /\ ProbeFailed
    /\ IssuedWith("run_interactive_ssh", "ok")
    /\ IssuedWith("https_get", "error")
    /\ last.exc = ""

\* C15: whenever create_vpn_server is invoked with the record file in
\* place, with or without the key file, it launches no instance and leaves
\* no record naming another instance than the one recorded.
C15_RecordAloneDecidesReEntry ==
    last.op = Created /\ last.pre.vpn_info.exists =>
        /\ ~Issued("create_instances")
        /\ vpn_info.exists => vpn_info.instance_id = last.pre.vpn_info.instance_id

\* C16: the record carries an entrypoint only if the UPSERT binding it to
\* the instance's public IP succeeded: every write of the record with an
\* entrypoint follows a successful UPSERT, and a record with an entrypoint
\* has its DNS record in place.
C16_EntrypointOnlyIfBound ==
    /\ \A k \in DOMAIN last.log :
          last.log[k].call = "write_vpn_info" /\ last.log[k].arg = "entrypoint" =>
              \E j \in 1 .. k - 1 : /\ last.log[j].call = "change_record_set"
                                    /\ last.log[j].arg = "UPSERT"
                                    /\ last.log[j].res = "ok"
    /\ vpn_info.exists /\ vpn_info.entrypoint # "" =>
          dns_record = [name |-> vpn_info.entrypoint, ip |-> vpn_info.public_ip]

\* The last call issued a DELETE of the DNS record.
DnsDeleteIssued == \E e \in Entries : e.call = "change_record_set" /\ e.arg = "DELETE"

\* C17: delete_vpn_server issues a DELETE of the DNS record only if an
\* entrypoint is in the stored record or was passed explicitly, whatever
\* hosted zone and subdomain the environment configures.
C17_DnsDeleteOnlyIfBound ==
    last.op = Deleted /\ DnsDeleteIssued =>
        last.pre.vpn_info.entrypoint # "" \/ last.args.entrypoint # ""

\* delete_vpn_server was given the two ids and nothing else, with no record file.
OnlyIds ==
    /\ last.op = Deleted
    /\ ~last.pre.vpn_info.exists
    /\ BothIds(last.args)
    /\ last.args.public_ip = None /\ last.args.entrypoint = ""

\* C18: delete_vpn_server given only instance_id and security_group_id, with
\* no record file, issues the key-pair delete, and the disassociation, the
\* terminate and the group delete for the ids given, issues no call to
\* change the DNS record, and returns without raising.
C18_TeardownWithOnlyIds ==
    OnlyIds =>
        /\ last.exc = ""
        /\ Issued("delete_key_pair")
        /\ \E e \in Entries : e.call = "disassociate" /\ e.id = last.args.instance_id
        /\ \E e \in Entries : e.call = "terminate" /\ e.id = last.args.instance_id
        /\ \E e \in Entries : /\ e.call = "delete_security_group"
                               /\ e.id = last.args.security_group_id
        /\ ~Issued("change_record_set")
        /\ dns_record = last.pre.dns_record

\* C18's case: hosted zone and subdomain are configured, the instance named
\* is alive, and the teardown releases it and its group.
C18_Witness ==
    /\ OnlyIds
    /\ env.hosted_zone /\ env.subdomain
    /\ last.pre.instances[last.args.instance_id].state = "running"
    /\ IssuedWith("terminate", "ok")
    /\ IssuedWith("delete_security_group", "ok")
    /\ last.exc = ""

\* C19: _tester returns True exactly when the HTTPS GET answered OK and
\* test_service succeeded; when the HTTPS GET raises it returns False
\* without connecting over SSH; it changes no file and no resource.
C19_TesterHealthyIffBoth ==
    last.op = "test_vpn" /\ Issued("https_get") =>
        /\ IssuedWith("_tester", "True") <=>
              IssuedWith("https_get", "ok") /\ IssuedWith("test_service", "ok")
        /\ last.exc = "" => IssuedWith("_tester", "True") \/ IssuedWith("_tester", "False")
        /\ IssuedWith("https_get", "error") =>
              /\ IssuedWith("_tester", "False")
              /\ ~Issued("ssh_connect") /\ ~Issued("test_service")
        /\ Now = last.pre

\* C19's case: the HTTPS GET answered, but not OK, and the probe reported unhealthy.
C19_Witness ==
    /\ last.op = "test_vpn"
    /\ IssuedWith("https_get", "not_ok")
    /\ IssuedWith("_tester", "False")

\* C20: the wait of _instance_info (src/vpn.py) is bounded: when the
\* instance never reports running, _instance_info eventually returns with
\* its failure result, None.
C20_InstanceInfoBounded ==
    [](\A i \in InstIds : instances[i].state # "running") =>
        [](poll.pc = "polling" => <>(poll.ret = "None"))

\* Positions in the log of the last call.
Positions(call) == {k \in DOMAIN last.log : last.log[k].call = call}

\* Every call named a in the log comes before every call named b.
Precedes(a, b) == \A i \in Positions(a), j \in Positions(b) : i < j

\* C25 as stated: in a fresh create_vpn_server the record file is written
\* before the key file is narrowed, and both come before the first
\* connection attempt of the remote configuration.
C25_RecordThenNarrowThenConfigure ==
    FreshCreate /\ Configured =>
        /\ \E w \in Positions("write_vpn_info"), c \in Positions("chmod") : w < c
        /\ Precedes("chmod", "ssh_connect")
        /\ \E w \in Positions("write_vpn_info") : \A s \in Positions("ssh_connect") : w < s

\* C25 as amended: in a fresh create_vpn_server the key file is narrowed
\* before the record file is written, both come before the first connection
\* attempt of the remote configuration, and both follow the successful
\* authorization of the ingress rules.
C25_NarrowThenRecordThenConfigure ==
    FreshCreate /\ Configured =>
        /\ Positions("chmod") # {} /\ Positions("write_vpn_info") # {}
        /\ Precedes("chmod", "write_vpn_info")
        /\ Precedes("chmod", "ssh_connect")
        /\ \E w \in Positions("write_vpn_info") : \A s \in Positions("ssh_connect") : w < s
        /\ Precedes("authorize_ingress", "chmod")
        /\ Precedes("wait_until_running", "authorize_ingress")
        /\ Precedes("create_instances", "wait_until_running")

\* C25's case: a fresh run that got as far as configuring the host.
C25_Witness ==
    /\ FreshCreate
    /\ IssuedWith("chmod", "ok")
    /\ IssuedWith("write_vpn_info", "ok")
    /\ IssuedWith("run_interactive_ssh", "ok")

\* -------------------------------------------- claims about src/vpn.py
Started == "startup_vpn"

Shutdown == "shutdown_vpn"

\* C21: a single ClientError of describe_instance_status in _instance_info
\* does not end startup_vpn: when startup_vpn ended because _instance_info
\* returned None, more than one poll had failed.
C21_PollErrorRetried ==
    poll.pc = "ended" /\ poll.ret = "None" => poll.errors > 1

\* C22: whenever the record file and the key file both exist, the key file
\* is owner-read-only.
C22_KeyFileNarrowedWhileRecordExists ==
    vpn_info.exists /\ key_pair_file # "absent" => key_pair_file = "0400"

\* C24: shutdown_vpn, called with a server file, issues the terminate call
\* and the group delete even when the key-pair delete failed, and the group
\* delete even when the terminate call failed.
C24_ShutdownAttemptsEveryStep ==
    last.op = Shutdown /\ last.pre.vpn_info.exists =>
        /\ IssuedWith("delete_key_pair", "error") =>
              Issued("terminate") /\ Issued("delete_security_group")
        /\ IssuedWith("terminate", "error") => Issued("delete_security_group")

\* C30: _create_key_pair of src/vpn.py returns True, so that
\* _create_ec2_instance goes on to the security group, only if the last
\* create_key_pair call it made created the key pair.
C30_TrueOnlyIfCreated ==
    last.op = Started /\ Issued("get_vpc_id") =>
        \E k \in Positions("create_key_pair") :
            /\ last.log[k].res = "ok"
            /\ \A j \in Positions("create_key_pair") : j <= k

\* C23: a record file holds instance_id and security_group_id both or
\* neither, in src/vpn/main.py and in src/vpn.py alike, and every write of
\* the record stores an instance id together with a group id.
C23_IdsTogether ==
    /\ vpn_info.exists =>
          (vpn_info.instance_id # None <=> vpn_info.security_group_id # None)
    /\ \A e \in Entries :
          e.call \in {"write_vpn_info", "write_server_file"} =>
              /\ e.id # None
              /\ vpn_info.exists /\ vpn_info.instance_id = e.id =>
                    vpn_info.security_group_id = instances[e.id].group

\* C23's case: a call wrote the record, which holds both ids.
C23_Witness ==
    /\ Issued("write_vpn_info") \/ Issued("write_server_file")
    /\ vpn_info.exists
    /\ vpn_info.instance_id # None
    /\ vpn_info.security_group_id # None

\* ------------------------------------- claims about compensation, main.py
\* The call at place k of the log, with its result.
At(k, call, res) == last.log[k].call = call /\ last.log[k].res = res

\* A call named call was issued after place k of the log.
After(k, call) == \E j \in Positions(call) : j > k

\* C26: after a failure in steps 3-5 of a fresh create_vpn_server the
\* compensating calls come in reverse order of creation: terminate before
\* the key-pair delete, the key-pair delete before the group delete.
C26_ReverseOrderCompensation ==
    FreshCreate =>
        \A f \in DOMAIN last.log :
            \/ At(f, "create_instances", "error")
            \/ At(f, "wait_until_running", "error")
            \/ At(f, "authorize_ingress", "error")
            => \A t \in Positions("terminate"), d \in Positions("delete_key_pair"),
                  g \in Positions("delete_security_group") :
                   f < t /\ f < d /\ f < g => t < d /\ d < g

\* C27: when the security group step of a fresh create_vpn_server fails,
\* before any key pair was created, no key-pair delete is issued and the
\* key pair and the key file are left as they were.
C27_NoKeyPairUndoBeforeCreate ==
    /\ FreshCreate
    /\ IssuedWith("get_vpc_id", "error") \/ IssuedWith("create_security_group", "error")
    /\ ~Issued("create_key_pair")
    => /\ ~Issued("delete_key_pair")
       /\ key_pair = last.pre.key_pair
       /\ key_pair_file = last.pre.key_pair_file

\* C28: in every rollback path of a fresh create_vpn_server each
\* compensating call is issued whatever the ones before it returned, and
\* the method returns without raising.
C28_RollbackBestEffort ==
    FreshCreate =>
        \A f \in DOMAIN last.log :
            /\ At(f, "create_instances", "error") =>
                  /\ After(f, "delete_key_pair")
                  /\ After(f, "delete_security_group")
                  /\ last.exc = ""
            /\ At(f, "wait_until_running", "error") \/ At(f, "authorize_ingress", "error") =>
                  /\ After(f, "delete_key_pair")
                  /\ After(f, "disassociate")
                  /\ After(f, "terminate")
                  /\ After(f, "delete_security_group")
                  /\ last.exc = ""
            /\ /\ At(f, "authorize_ingress", "error")
               /\ ~IssuedWith("disassociate", "ok")
               => \E w \in Positions("wait_until_terminated") :
                     /\ Precedes("terminate", "wait_until_terminated")
                     /\ \E g \in Positions("delete_security_group") : w < g

\* C28's case: the wait for running failed and every compensating call failed.
C28_Witness ==
    /\ FreshCreate
    /\ IssuedWith("wait_until_running", "error")
    /\ IssuedWith("delete_key_pair", "error")
    /\ IssuedWith("disassociate", "error")
    /\ IssuedWith("terminate", "error")
    /\ IssuedWith("delete_security_group", "error")
    /\ last.exc = ""

\* C29: a duplicate-name error of create_security_group never makes
\* create_vpn_server fail or raise: the id of the existing group is looked
\* up and returned, and provisioning goes on to the key pair.
C29_DuplicateNeverFails ==
    last.op = Created =>
        \A k \in DOMAIN last.log :
            At(k, "create_security_group", "duplicate") =>
                /\ k + 1 \in DOMAIN last.log
                /\ At(k + 1, "list_security_groups", "ok")
                /\ last.log[k + 1].id = last.pre.security_group
                /\ After(k + 1, "create_key_pair")
                /\ last.exc # "ClientError"

\* ------------------------------------------------- claims C31 to C36
\* C31: _create_key_pair ends with a result: when creation reports a
\* duplicate and every delete of the stale key pair fails, the
\* delete-and-recreate recovery stops by itself and create_vpn_server is not
\* ended by the interpreter's RecursionError.
C31_KeyPairRecoveryEnds ==
    /\ last.op = Created
    /\ IssuedWith("create_key_pair", "duplicate")
    /\ \A e \in Entries : e.call = "delete_key_pair" => e.res = "error"
    => last.exc # "RecursionError"

\* C32: _configure_vpn makes at most SSHAttempts connection attempts; the
\* interactive configuration is run once, right after the attempt that
\* succeeded, and only then; when every attempt failed the interactive
\* configuration is not run and TimeoutError is raised.
C32_ConfigureAttemptsBounded ==
    last.op = Created =>
        /\ Cardinality(ConfigureAttempts) <= SSHAttempts
        /\ Cardinality(Positions("run_interactive_ssh")) <= 1
        /\ \A k \in Positions("run_interactive_ssh") :
              /\ k - 1 \in ConfigureAttempts
              /\ last.log[k - 1].res = "ok"
        /\ \A k \in ConfigureAttempts :
              /\ last.log[k].res = "ok" => k + 1 \in Positions("run_interactive_ssh")
              /\ last.log[k].res = "error" =>
                    \A j \in ConfigureAttempts : j < k => last.log[j].res = "error"
        /\ ConfigureFailed =>
              /\ ~Issued("run_interactive_ssh")
              /\ last.exc = "TimeoutError"

\* C32's case: the last of the SSHAttempts attempts connected and the
\* interactive configuration ran.
C32_Witness ==
    /\ last.op = Created
    /\ Cardinality(ConfigureAttempts) = SSHAttempts
    /\ IssuedWith("run_interactive_ssh", "ok")

\* C33: delete_vpn_server acts on the value passed for an argument and on
\* the record's value only when none was passed; in particular, when an
\* entrypoint was passed, the DNS record it deletes is the one of that name.
C33_ExplicitArgumentsFirst ==
    last.op = Deleted /\ last.exc = "" =>
        /\ \A e \in Entries :
              /\ e.call \in {"disassociate", "terminate"} /\ last.args.instance_id # None =>
                    e.id = last.args.instance_id
              /\ e.call = "delete_security_group" /\ last.args.security_group_id # None =>
                    e.id = last.args.security_group_id
              /\ e.call = "change_record_set" /\ last.args.public_ip # None =>
                    e.id = last.args.public_ip
        /\ /\ last.args.entrypoint # ""
           /\ \E e \in Entries : e.call = "change_record_set" /\ e.res = "ok"
           => last.pre.dns_record.name = last.args.entrypoint

\* A step of startup_vpn after the key pair was created has failed: the
\* group creation, the authorization, the launch or the wait for running.
StartupStepFailed ==
    \/ \E e \in Entries :
          /\ e.res = "error"
          /\ e.call \in {"get_vpc_id", "create_security_group", "authorize_ingress",
                         "run_instances"}
    \/ poll.ret = "None"

\* C34: a startup_vpn started with no server file in which a step after the
\* key-pair creation failed has, when it returns, deleted the key pair, the
\* security group and the instance it created, provided its delete and
\* terminate calls succeeded.
C34_StartupRollbackReleasesAll ==
    /\ last.op = Started
    /\ ~last.pre.vpn_info.exists
    /\ poll.pc = "ended"
    /\ IssuedWith("create_key_pair", "ok")
    /\ StartupStepFailed
    /\ ReleaseCallsSucceeded
    => /\ ~key_pair /\ key_pair_file = "absent"
       /\ \A e \in Entries :
             /\ e.call = "create_security_group" /\ e.res = "ok" => security_group # e.id
             /\ e.call = "run_instances" /\ e.res = "ok" =>
                   instances[e.id].state \in {"shutting-down", "terminated"}

\* C35: every create_instances call of create_vpn_server, whatever calls
\* the process served before, is made with the image id the caller
\* configured or with the auto-selected one, never with the placeholder.
C35_LaunchImageNeverPlaceholder ==
    last.op = Created =>
        \A e \in Entries :
            e.call = "create_instances" => e.arg \in {"ami-user", "ami-auto"}

\* C36: after a create_vpn_server or an argument-less delete_vpn_server,
\* every instance the program launched that is pending or running is the
\* one named in the record file; hence there is at most one.
C36_LiveInstanceIsRecorded ==
    last.op = Created \/ (last.op = Deleted /\ last.args = NoArgs) =>
        \A i \in InstIds :
            instances[i].state \in {"pending", "running"} =>
                vpn_info.exists /\ vpn_info.instance_id = i


====
